---- MODULE Spec2Model ----
(***************************************************************************)
(* A model of sgpt's role registry (sgpt/role.py), of the command entry    *)
(* point main (sgpt/app.py) with its stdin prompt extraction and its shell *)
(* action loop, and of the helpers of sgpt/utils.py they call.             *)
(*                                                                         *)
(* Text is a sequence of atoms (strings): a word, a line break "\n", or a  *)
(* format placeholder such as "{shell}".  Concatenation of texts is \o.    *)
(* The Chinese literals of role.py are written in ASCII transliteration    *)
(* (pinyin), one atom per literal segment between placeholders.  The words *)
(* "You are" are one atom and the blank after them another, " ".           *)
(***************************************************************************)
EXTENDS Integers, Sequences, FiniteSets, TLC

VARIABLES
    \* ---- the role store (the directory ROLE_STORAGE_PATH) and wall time
    files,          \* role name -> the record file <name>.json, or NoFile
    storageExists,  \* the storage directory exists
    clock,          \* the file system's modification-time clock
    host,           \* configuration and platform the defaults are built from
    \* ---- one invocation that ends in a role option callback
    rpc,            \* "idle" | "ready" (role.py imported, callbacks may run)
    result,         \* what the last callback or lookup produced
    listed,         \* the paths echoed by --list-roles
    created,        \* the --create-role calls so far, in order
    \* ---- one invocation of main
    pc,             \* position in main
    args,           \* the parsed command line of main
    stdinRest,      \* lines of the piped standard input not yet consumed
    stdin,          \* app.py:166 the local accumulator "stdin"
    prompt,         \* the local "prompt"
    ttyAttached,    \* sys.stdin was switched to the terminal device
    role_class,     \* the resolved persona
    full_completion,\* the text returned by the handler
    completions,    \* the completion requests issued, in order
    executed,       \* the commands handed to run_command, in order
    prompts,        \* how many times the E/D/A prompt was shown and answered
    option,         \* the last converted answer to the E/D/A prompt
    typed,          \* the line last typed at the E/D/A prompt
    outcome,        \* how the invocation ended
    \* ---- one call of SystemRole.get_role_name
    initial_message,\* its argument, the first message of a chat transcript
    role_name,      \* what the call produced
    \* ---- processes that run create_defaults at the same time
    defaults        \* process -> the built-in it is at, its position, and
                    \* how many records it wrote

roleVars == <<files, storageExists, clock, host, rpc, result, listed, created>>
mainVars == <<pc, args, stdinRest, stdin, prompt, ttyAttached, role_class,
              full_completion, completions, executed, prompts, option, typed, outcome>>
sideVars == <<initial_message, role_name, defaults>>
vars == <<files, storageExists, clock, host, rpc, result, listed, created,
          pc, args, stdinRest, stdin, prompt, ttyAttached, role_class,
          full_completion, completions, executed, prompts, option, typed, outcome,
          initial_message, role_name, defaults>>

\* ------------------------------------------------------------------ bounds
MaxCreates == 3     \* --create-role invocations in one behaviour
MaxLines == 3       \* lines of an enumerated piped input
MaxDescribe == 2    \* describe requests in one shell action loop
MaxRepl == 1        \* completion requests of one REPL session
MaxAtoms == 3       \* atoms of a transcript handed to get_role_name

\* ------------------------------------------------------------------- text
NL == "\n"

RECURSIVE Concat(_)
\* The concatenation of a sequence of texts.
Concat(ts) == IF ts = <<>> THEN <<>> ELSE Head(ts) \o Concat(Tail(ts))

\* Python's "sub in text" for texts: sub occurs as a contiguous run of atoms.
Contains(text, sub) ==
    \E i \in 0..(Len(text) - Len(sub)) :
        \A j \in 1..Len(sub) : text[i + j] = sub[j]

RECURSIVE Format(_, _)
\* str.format(**variables): every placeholder atom is replaced by its value;
\* a keyword that names no placeholder of the template is ignored.
Format(tpl, variables) ==
    IF tpl = <<>> THEN <<>>
    ELSE (IF Head(tpl) \in DOMAIN variables
             THEN variables[Head(tpl)] ELSE <<Head(tpl)>>)
         \o Format(Tail(tpl), variables)

\* ----------------------------------------------------- role.py: templates
SHELL_ROLE ==
    <<NL, "Jin tigong ", "{os}", " de ", "{shell}",
      " mingling, bu baohan renhe miaoshu. ", NL,
      "Ruguo xijie buzu, qing tigong zui heli de jiejue fang'an. ", NL,
      "Quebao shuchu shi youxiao de shell mingling. ", NL,
      "Ruguo xuyao duo ge buzhou, qing changshi shiyong && jiang tamen zuhe zai yiqi. ", NL,
      "Jin tigong chun wenben, bu shiyong Markdown geshi.", NL>>

DESCRIBE_SHELL_ROLE ==
    <<NL, "Tigong geiding shell mingling de jianjie dan ju miaoshu. ", NL,
      "Miaoshu mingling de mei ge canshu he xuanxiang. ", NL,
      "Yong dayue 80 ge ci tigong jianduan de huida. ", NL,
      "Jin keneng shiyong Markdown geshi.", NL>>

CODE_ROLE ==
    <<NL, "Fanhui jieguo jin baohan daima, meiyou renhe miaoshu.", NL,
      "Yi chun wenben geshi tigong daima, bu shiyong Markdown geshi.", NL,
      "Bu yunxu baohan ru ``` huo ```python deng fuhao.", NL,
      "Ruguo xijie buzu, qing tigong zui heli de jiejue fang'an.", NL,
      "Bu yunxu yaoqiu tigong geng duo xiangqing.", NL,
      "Liru, ruguo tishi shi 'Hello world Python', ni yinggai fanhui 'print('Hello world')'.", NL>>

DEFAULT_ROLE ==
    <<NL, "Ni shi biancheng he xitong guanli zhushou. ", NL,
      "Ni zhengzai shiyong ", "{shell}", " shell guanli ", "{os}", " caozuo xitong. ", NL,
      "Chufei tebie yaoqiu tigong geng duo xiangqing, fouze qing yong dayue 100 ge ci tigong jianduan huida. ", NL,
      "Ruguo xuyao cunchu renhe shuju, qing jiashe shuju jiang cunchu zai duihua zhong. ", NL,
      "Jin keneng shiyong Markdown geshi.", NL>>

\* role.py:51.  The template holds neither {name} nor {role}.
ROLE_TEMPLATE == <<"Ni shi YiboLiu sheji bing gaijin de ShellGPT">>

\* role.py:50, the template left in the comment above the live one.
ROLE_TEMPLATE_commented == <<"You are", " ", "{name}", NL, "{role}">>

\* --------------------------------------------- role.py: persona detection
YOU_ARE == "You are"
SP == " "

\* str.splitlines()[0] of a non-empty text: the atoms before the first break.
RECURSIVE FirstLine(_)
FirstLine(text) ==
    IF text = <<>> \/ Head(text) = NL THEN <<>>
    ELSE <<Head(text)>> \o FirstLine(Tail(text))

\* text[i..] starts with sep.
StartsAt(text, i, sep) ==
    /\ i + Len(sep) - 1 <= Len(text)
    /\ \A j \in 1..Len(sep) : text[i + j - 1] = sep[j]

\* str.split(sep): the pieces of text between the occurrences of sep, found
\* left to right without overlap; a text without sep is its only piece.
RECURSIVE Split(_, _)
Split(text, sep) ==
    LET hits == {i \in 1..Len(text) : StartsAt(text, i, sep)}
    IN  IF hits = {} THEN <<text>>
        ELSE LET i == CHOOSE h \in hits : \A g \in hits : h <= g
             IN  <<SubSeq(text, 1, i - 1)>>
                 \o Split(SubSeq(text, i + Len(sep), Len(text)), sep)

\* str.strip(): leading and trailing blanks removed.
RECURSIVE Strip(_)
Strip(text) ==
    IF text = <<>> THEN <<>>
    ELSE IF Head(text) = SP THEN Strip(Tail(text))
    ELSE IF text[Len(text)] = SP THEN Strip(SubSeq(text, 1, Len(text) - 1))
    ELSE text

\* What get_role_name produces: None, a name, or an IndexError raised by
\* split(...)[1] on a list of one piece.
ReturnsNone == [kind |-> "None", name |-> <<>>]
RaisesIndexError == [kind |-> "IndexError", name |-> <<>>]
ReturnsName(n) == [kind |-> "name", name |-> n]

\* Nothing was typed at the E/D/A prompt yet.
NoAnswer == "(nothing typed)"

\* SystemRole.get_role_name(initial_message).
GetRoleName(message) ==
    IF message = <<>> THEN ReturnsNone
    ELSE LET line == FirstLine(message)
         IN  IF Contains(line, <<YOU_ARE>>)
             THEN LET pieces == Split(line, <<YOU_ARE, SP>>)
                  IN  IF Len(pieces) < 2 THEN RaisesIndexError
                      ELSE ReturnsName(Strip(pieces[2]))
             ELSE ReturnsNone

\* get_role_name was not called.
NotCalled == [kind |-> "not called", name |-> <<>>]

\* The processes importing sgpt.role at the same time.
Procs == {1, 2}

\* No process is modelled step by step.
NoDefaults == [p \in Procs |-> [i |-> 0, at |-> "none", writes |-> 0]]

SideIdle ==
    /\ initial_message = <<>>
    /\ role_name = NotCalled
    /\ defaults = NoDefaults

\* SystemRole(name, ...).same_role(initial_message).
SameRole(name, message) ==
    IF message = <<>> THEN FALSE
    ELSE Contains(message, <<YOU_ARE, SP, name>>)

\* ------------------------------------------------------ role.py: the names
DEFAULT == "ShellGPT"
SHELL == "Shell Command Generator"
DESCRIBE_SHELL == "Shell Command Descriptor"
CODE == "Code Generator"

BuiltinNames == {DEFAULT, SHELL, DESCRIBE_SHELL, CODE}
UserNames == {"A", "B"}
Names == BuiltinNames \cup UserNames

NoFile == [name |-> "", role |-> <<>>, mtime |-> -1]

\* ---------------------------------------------- role.py: host detection
AUTO == "auto"

\* The configurations and platforms the defaults are built under.
Hosts ==
    { [OS_NAME |-> AUTO, SHELL_NAME |-> AUTO, system |-> "Linux",
       distro |-> "Ubuntu 22.04", release |-> "", mac_ver |-> "",
       SHELL |-> <<"bin", "bash">>, PSModulePath |-> 1],
      [OS_NAME |-> "Plan9", SHELL_NAME |-> "rc", system |-> "Darwin",
       distro |-> "", release |-> "", mac_ver |-> "13.1",
       SHELL |-> <<"bin", "zsh">>, PSModulePath |-> 1] }

\* SystemRole._os_name
OsName(h) ==
    IF h.OS_NAME # AUTO THEN <<h.OS_NAME>>
    ELSE IF h.system = "Linux" THEN <<"Linux/", h.distro>>
    ELSE IF h.system = "Windows" THEN <<"Windows ", h.release>>
    ELSE IF h.system = "Darwin" THEN <<"Darwin/MacOS ", h.mac_ver>>
    ELSE <<h.system>>

\* os.path.basename of getenv("SHELL", "/bin/sh"), the path given by its parts
Basename(path) == IF path = <<>> THEN "sh" ELSE path[Len(path)]

\* SystemRole._shell_name
ShellName(h) ==
    IF h.SHELL_NAME # AUTO THEN <<h.SHELL_NAME>>
    ELSE IF h.system \in {"Windows", "nt"}
         THEN (IF h.PSModulePath >= 3 THEN <<"powershell.exe">> ELSE <<"cmd.exe">>)
    ELSE <<Basename(h.SHELL)>>

\* ------------------------------------------------- role.py: SystemRole
NoVars == <<>>

\* SystemRole.__init__ (the object; the mkdir of the storage is the caller's
\* storageExists' = TRUE)
NewRole(name, role, variables) ==
    [name |-> name,
     role |-> IF variables # NoVars THEN Format(role, variables) ELSE role]

\* SystemRole._exists on the store fs
Exists(fs, name) == fs[name] # NoFile

\* The body _save composes at role.py:158.
ComposeBody(r) ==
    Format(ROLE_TEMPLATE, ("{name}" :> <<r.name>>) @@ ("{role}" :> r.role))

\* _save with the write moved before the question.
Save_writeFirst(fs, r, answer, t) ==
    [files |-> [fs EXCEPT ![r.name] =
                   [name |-> r.name, role |-> ComposeBody(r), mtime |-> t]],
     aborted |-> Exists(fs, r.name) /\ ~answer, asked |-> Exists(fs, r.name)]

\* SystemRole._save at time t; answer is the user's reply to typer.confirm,
\* asked only when the record exists.  abort=True raises Abort on "no".
Save(fs, r, answer, t) ==
    IF Exists(fs, r.name) /\ ~answer
    THEN [files |-> fs, aborted |-> TRUE, asked |-> TRUE]
    ELSE [files |-> [fs EXCEPT ![r.name] =
                        [name |-> r.name, role |-> ComposeBody(r), mtime |-> t]],
          aborted |-> FALSE, asked |-> Exists(fs, r.name)]

\* The four roles create_defaults builds, in its order (role.py:72-77).
DefaultRoleObjects(h) ==
    LET variables == ("{shell}" :> ShellName(h)) @@ ("{os}" :> OsName(h))
    IN  << NewRole(DEFAULT, DEFAULT_ROLE, variables),
           NewRole(SHELL, SHELL_ROLE, variables),
           NewRole(DESCRIBE_SHELL, DESCRIBE_SHELL_ROLE, variables),
           NewRole(CODE, CODE_ROLE, NoVars) >>

\* create_defaults without its "if not default_role._exists".
CreateDefaultsStep_always(fs, r, t) ==
    [fs EXCEPT ![r.name] = [name |-> r.name, role |-> ComposeBody(r), mtime |-> t]]

\* One turn of the loop of create_defaults for role r, the clock showing t.
CreateDefaultsStep(fs, r, t) ==
    IF ~Exists(fs, r.name) THEN Save(fs, r, FALSE, t).files ELSE fs

RECURSIVE CreateDefaultsFrom(_, _, _, _)
\* The loop of create_defaults over roles; before the write of the role at
\* position i the clock advances by adv[i] (0: same tick as the write before).
\* Yields the store and the clock at the end.
CreateDefaultsFrom(fs, roles, t, adv) ==
    IF roles = <<>> THEN [files |-> fs, clock |-> t]
    ELSE LET r == Head(roles)
             tw == IF Exists(fs, r.name) THEN t ELSE t + Head(adv)
         IN  CreateDefaultsFrom(CreateDefaultsStep(fs, r, tw),
                                Tail(roles), tw, Tail(adv))

\* SystemRole.create_defaults
CreateDefaults(fs, h, t, adv) ==
    CreateDefaultsFrom(fs, DefaultRoleObjects(h), t, adv)

NotFound == [kind |-> "RoleNotFound", name |-> "", role |-> <<>>]

\* get falling back to the default persona instead of raising.
Get_fallback(fs, name) ==
    IF ~Exists(fs, name) THEN [kind |-> "role", name |-> name, role |-> ROLE_TEMPLATE]
    ELSE [kind |-> "role", name |-> fs[name].name, role |-> fs[name].role]

\* SystemRole.get: the record's fields handed back to the constructor, or
\* BadArgumentUsage('Role "<name>" not found.')
Get(fs, name) ==
    IF ~Exists(fs, name) THEN [NotFound EXCEPT !.name = name]
    ELSE [kind |-> "role", name |-> fs[name].name, role |-> fs[name].role]

\* The path of a record file below the storage directory.
FilePath(name) == <<"ROLE_STORAGE_PATH", name, ".json">>

\* Directory orders: the orders in which glob("*") may yield the record
\* files (an order of all names; the absent ones are skipped).
GlobOrders ==
    { <<"A", "B", CODE, DESCRIBE_SHELL, SHELL, DEFAULT>>,
      <<DEFAULT, SHELL, DESCRIBE_SHELL, CODE, "B", "A">>,
      <<"B", SHELL, "A", DEFAULT, CODE, DESCRIBE_SHELL>> }

\* glob("*") on the store fs under the directory order g
Glob(fs, g) == SelectSeq(g, LAMBDA n : Exists(fs, n))

\* The insertion of a sort with reverse=True.
InsertByMtime_descending(fs, srt, n) ==
    LET k == Cardinality({i \in 1..Len(srt) : fs[srt[i]].mtime >= fs[n].mtime})
    IN  SubSeq(srt, 1, k) \o <<n>> \o SubSeq(srt, k + 1, Len(srt))

\* Insert name n into the sorted sequence srt after every entry whose key is
\* not greater (sorted() is stable).
InsertByMtime(fs, srt, n) ==
    LET k == Cardinality({i \in 1..Len(srt) : fs[srt[i]].mtime <= fs[n].mtime})
    IN  SubSeq(srt, 1, k) \o <<n>> \o SubSeq(srt, k + 1, Len(srt))

RECURSIVE SortByMtime(_, _, _)
\* sorted(files, key=lambda f: f.stat().st_mtime) of the glob order g
SortByMtime(fs, g, srt) ==
    IF g = <<>> THEN srt
    ELSE SortByMtime(fs, Tail(g), InsertByMtime(fs, srt, Head(g)))

\* What SystemRole.list echoes when glob yields the order g.
Listing(fs, g) ==
    LET srt == SortByMtime(fs, g, <<>>)
    IN  [i \in 1..Len(srt) |-> FilePath(srt[i])]

Present(fs) == {n \in Names : Exists(fs, n)}

\* The time at which the next process starts: later than every modification
\* time recorded so far (the clock of the model only orders the writes).
NextStart(fs, t) == IF \E n \in Names : fs[n].mtime >= t THEN t + 1 ELSE t

\* ------------------------------------------ the state before any invocation
\* A record of a built-in left in the store by an earlier release or edited
\* by the user: not what this release's _save composes.
CustomBody(name) == <<"You are", " ", name, NL, "my own instructions">>
CustomFile(name) == [name |-> name, role |-> CustomBody(name), mtime |-> 0]

\* The sets of built-ins found customized in the store at the start.
CustomizedSets == {{}, {DEFAULT}, {SHELL, CODE}, BuiltinNames}

\* The stores the first invocation may find: no user role, the built-ins of
\* one of the sets above customized, the others absent.
InitialStores ==
    {[n \in Names |-> IF n \in C THEN CustomFile(n) ELSE NoFile] :
        C \in CustomizedSets}

NoResult == [kind |-> "none", name |-> "", role |-> <<>>]
NoArgs == [prompt |-> <<>>, shell |-> FALSE, describe_shell |-> FALSE,
           code |-> FALSE, interaction |-> FALSE, role |-> "", chat |-> FALSE,
           repl |-> FALSE, editor |-> FALSE, isatty |-> TRUE, piped |-> <<>>,
           params |-> [model |-> "", temperature |-> 0, top_p |-> 0,
                       caching |-> FALSE],
           default_execute |-> "false"]
NoRole == [kind |-> "none", name |-> "", role |-> <<>>]

InitStore ==
    /\ files \in InitialStores
    /\ storageExists \in {b \in BOOLEAN : Present(files) # {} => b}
    /\ clock = 1
    /\ host \in Hosts
    /\ rpc = "idle"
    /\ result = NoResult
    /\ listed = <<>>
    /\ created = <<>>

MainIdle ==
    /\ pc = "none"
    /\ args = NoArgs
    /\ stdinRest = <<>>
    /\ stdin = <<>>
    /\ prompt = <<>>
    /\ ttyAttached = FALSE
    /\ role_class = NoRole
    /\ full_completion = <<>>
    /\ completions = <<>>
    /\ executed = <<>>
    /\ prompts = 0
    /\ option = ""
    /\ typed = NoAnswer
    /\ outcome = "running"

\* ------------------------------------- invocations ending in a role callback
\* The texts a user types at "Enter role description" (typer.prompt asks
\* again on an empty answer).
RoleTexts == {<<"be terse">>, <<"answer in {os} style", NL>>}

\* How the clock may advance before each of the four writes of
\* create_defaults: not at all (one tick for all), or before each but the first.
ClockAdvances == {<<0, 0, 0, 0>>, <<0, 1, 1, 1>>}

\* Process start: importing sgpt.role runs SystemRole.create_defaults()
\* (role.py:195).  Each SystemRole(...) of the loop makes the storage directory.
Import ==
    /\ rpc = "idle"
    /\ \E adv \in ClockAdvances :
          LET cd == CreateDefaults(files, host, clock, adv)
          IN  /\ files' = cd.files
              /\ clock' = cd.clock
    /\ storageExists' = TRUE
    /\ rpc' = "ready"
    /\ result' = NoResult
    /\ listed' = <<>>
    /\ UNCHANGED <<host, created>>
    /\ UNCHANGED <<mainVars, sideVars>>

\* --create-role name: SystemRole.create under option_callback.  The process
\* ends (typer.Exit, or Abort when the overwrite is declined); the next one
\* starts at a later time.
CreateRole(name, text, answer, dt) ==
    /\ rpc = "ready"
    /\ Len(created) < MaxCreates
    /\ Exists(files, name) \/ answer      \* no question, no reply to choose
    /\ LET r == NewRole(name, text, NoVars)
           s == Save(files, r, answer, clock + dt)
       IN  /\ files' = s.files
           /\ result' = [kind |-> IF s.aborted THEN "aborted" ELSE "created",
                         name |-> name, role |-> text]
           /\ created' = Append(created,
                  [name |-> name, written |-> ~s.aborted,
                   reply |-> IF ~s.asked THEN "none"
                             ELSE IF answer THEN "yes" ELSE "no"])
    /\ \/ dt = 0
       \/ dt = 1 /\ \E n \in Names : files[n].mtime = clock
    /\ clock' = NextStart(files', clock + dt)
    /\ rpc' = "idle"
    /\ UNCHANGED <<storageExists, host, listed>>
    /\ UNCHANGED <<mainVars, sideVars>>

\* --show-role name: SystemRole.show echoes get(name).role
ShowRole(name) ==
    /\ rpc = "ready"
    /\ result' = Get(files, name)
    /\ clock' = NextStart(files, clock)
    /\ rpc' = "idle"
    /\ UNCHANGED <<files, storageExists, host, listed, created>>
    /\ UNCHANGED <<mainVars, sideVars>>

\* --list-roles: SystemRole.list
ListRoles ==
    /\ rpc = "ready"
    /\ IF ~storageExists
       THEN listed' = <<>>
       ELSE \E g \in GlobOrders : listed' = Listing(files, Glob(files, g))
    /\ result' = [kind |-> "listed", name |-> "", role |-> <<>>]
    /\ clock' = NextStart(files, clock)
    /\ rpc' = "idle"
    /\ UNCHANGED <<files, storageExists, host, created>>
    /\ UNCHANGED <<mainVars, sideVars>>

NextRoles ==
    \/ Import
    \/ \E name \in UserNames \cup {DEFAULT}, text \in RoleTexts,
          answer \in BOOLEAN, dt \in {0, 1} :
          CreateRole(name, text, answer, dt)
    \/ \E name \in Names : ShowRole(name)
    \/ ListRoles

InitRoles == InitStore /\ MainIdle /\ SideIdle

SpecRoles == InitRoles /\ [][NextRoles]_vars

\* ------------------------------------------- the registry with SystemRole.delete
\* SystemRole.delete of the role called name; answer is the reply to
\* typer.confirm, asked only when the record exists (abort=True); unlink of a
\* missing file raises FileNotFoundError.
Delete(fs, name, answer) ==
    IF ~Exists(fs, name) THEN [files |-> fs, kind |-> "FileNotFoundError"]
    ELSE IF ~answer THEN [files |-> fs, kind |-> "delete_aborted"]
    ELSE [files |-> [fs EXCEPT ![name] = NoFile], kind |-> "deleted"]

\* How the process ends after a callback or registry call of the given
\* outcome: typer.Exit() of option_callback and a plain return end it with 0,
\* the Abort of typer.confirm(abort=True) with 1, a usage error
\* (BadArgumentUsage) with 2, an uncaught exception with 1.
ExitStatus(kind) ==
    CASE kind \in {"created", "listed", "role", "deleted", "none"} -> 0
      [] kind \in {"aborted", "delete_aborted"} -> 1
      [] kind = "RoleNotFound" -> 2
      [] OTHER -> 1

\* A process that calls SystemRole(name, ...).delete() and ends.
DeleteRole(name, answer) ==
    /\ rpc = "ready"
    /\ Exists(files, name) \/ answer      \* no question, no reply to choose
    /\ LET dl == Delete(files, name, answer)
       IN  /\ files' = dl.files
           /\ result' = [kind |-> dl.kind, name |-> name, role |-> <<>>]
    /\ clock' = NextStart(files', clock)
    /\ rpc' = "idle"
    /\ UNCHANGED <<storageExists, host, listed, created>>
    /\ UNCHANGED <<mainVars, sideVars>>

NextRegistry ==
    \/ Import
    \/ \E name \in UserNames \cup {DEFAULT}, text \in RoleTexts,
          answer \in BOOLEAN, dt \in {0, 1} :
          CreateRole(name, text, answer, dt)
    \/ \E name \in Names : ShowRole(name)
    \/ ListRoles
    \/ \E name \in UserNames, answer \in BOOLEAN : DeleteRole(name, answer)

SpecRegistry == InitRoles /\ [][NextRegistry]_vars

\* ------------------------------------------------------ utils.py, app.py
SENTINEL == "__sgpt__eof__"

\* The sentinel test as equality with the whole line.
HasSentinel_wholeLine(line) == line = <<SENTINEL, NL>>

\* app.py:176: "__sgpt__eof__" in line
HasSentinel(line) == \E i \in 1..Len(line) : line[i] = SENTINEL

\* The atoms shlex.quote leaves bare (its _find_unsafe finds nothing in them).
SafeAtoms == {"ls", "pwd", "-la"}

RECURSIVE EscapeQuotes(_)
\* shlex.quote: s.replace("'", "'\"'\"'")
EscapeQuotes(c) ==
    IF c = <<>> THEN <<>>
    ELSE (IF Head(c) = "'" THEN <<"'", "\"", "'", "\"", "'">> ELSE <<Head(c)>>)
         \o EscapeQuotes(Tail(c))

\* shlex.quote
ShlexQuote(c) ==
    IF c = <<>> THEN <<"'", "'">>
    ELSE IF \A i \in 1..Len(c) : c[i] \in SafeAtoms THEN c
    ELSE <<"'">> \o EscapeQuotes(c) \o <<"'">>

\* utils.run_command: the command line handed to os.system on host h
FullCommand(h, command) ==
    IF h.system = "Windows"
    THEN (IF h.PSModulePath >= 3
          THEN <<"powershell.exe -Command ", "\"">> \o command \o <<"\"">>
          ELSE <<"cmd.exe /c ", "\"">> \o command \o <<"\"">>)
    ELSE (IF h.SHELL = <<>> THEN <<"/bin/sh">> ELSE h.SHELL)
         \o <<" -c ">> \o ShlexQuote(command)

\* DefaultRoles.check_get
CheckGet(fs, shell, describe_shell, code) ==
    IF shell THEN Get(fs, SHELL)
    ELSE IF describe_shell THEN Get(fs, DESCRIBE_SHELL)
    ELSE IF code THEN Get(fs, CODE)
    ELSE Get(fs, DEFAULT)

\* The sum with the code flag left out.
IntentCount_withoutCode(a) ==
    (IF a.shell THEN 1 ELSE 0) + (IF a.describe_shell THEN 1 ELSE 0)

\* app.py:190: sum((shell, describe_shell, code))
IntentCount(a) ==
    (IF a.shell THEN 1 ELSE 0) + (IF a.describe_shell THEN 1 ELSE 0)
    + (IF a.code THEN 1 ELSE 0)

\* click's Choice(("e", "d", "a", "y"), case_sensitive=False).convert: the
\* choice as written in the tuple, or "invalid" (the prompt is shown again).
ChoiceConvert(raw) ==
    CASE raw \in {"e", "E"} -> "e"
      [] raw \in {"d", "D"} -> "d"
      [] raw \in {"a", "A"} -> "a"
      [] raw \in {"y", "Y"} -> "y"
      [] OTHER -> "invalid"

\* typer.prompt with the default fixed to "e", whatever the configuration.
PromptOption_alwaysExecute(raw, default_execute) ==
    IF raw = "" THEN "e" ELSE ChoiceConvert(raw)

\* app.py:243-249: what typer.prompt returns for the line the user types; an
\* empty line takes the default.
PromptOption(raw, default_execute) ==
    IF raw = "" THEN (IF default_execute = "true" THEN "e" ELSE "a")
    ELSE ChoiceConvert(raw)

\* What the user may type at the E/D/A prompt.
RawAnswers == {"e", "E", "d", "D", "a", "A", "y", "Y", "", "x"}

\* The request a handler sends to the completion provider.
Request(handler, persona, text, params) ==
    [handler |-> handler, persona |-> persona, prompt |-> text, params |-> params]

\* model, temperature, top_p and cache of a command line
Params ==
    { [model |-> "gpt-4", temperature |-> 0, top_p |-> 1, caching |-> TRUE],
      [model |-> "gpt-3.5-turbo", temperature |-> 1, top_p |-> 0, caching |-> FALSE] }

\* Texts the completion provider may return.
Responses == {<<"ls", " ", "-la">>, <<"pwd">>}

\* Texts the user may leave in the editor (empty: BadParameter).
EditedTexts == {<<>>, <<"edited", NL>>}

\* ----------------------------------------------------- app.py: main, by step
\* Process start: importing sgpt.role runs create_defaults before main.
MainImport ==
    /\ pc = "start"
    /\ \E adv \in ClockAdvances :
          LET cd == CreateDefaults(files, host, clock, adv)
          IN  /\ files' = cd.files
              /\ clock' = cd.clock
    /\ storageExists' = TRUE
    /\ pc' = IF args.isatty THEN "validate" ELSE "reading"
    /\ stdin' = <<>>
    /\ UNCHANGED <<host, rpc, result, listed, created, sideVars>>
    /\ UNCHANGED <<args, stdinRest, prompt, ttyAttached, role_class,
                   full_completion, completions, executed, prompts, option, typed, outcome>>

\* app.py:175-178, one turn of "for line in sys.stdin" on a line without the
\* sentinel.
ReadLine ==
    /\ pc = "reading"
    /\ stdinRest # <<>>
    /\ ~HasSentinel(Head(stdinRest))
    /\ stdin' = stdin \o Head(stdinRest)
    /\ stdinRest' = Tail(stdinRest)
    /\ UNCHANGED <<roleVars, sideVars>>
    /\ UNCHANGED <<pc, args, prompt, ttyAttached, role_class, full_completion,
                   completions, executed, prompts, option, typed, outcome>>

\* app.py:176-177, the turn that reads a line with the sentinel: break.
ReadSentinel ==
    /\ pc = "reading"
    /\ stdinRest # <<>>
    /\ HasSentinel(Head(stdinRest))
    /\ stdinRest' = Tail(stdinRest)
    /\ pc' = "compose"
    /\ UNCHANGED <<roleVars, sideVars>>
    /\ UNCHANGED <<args, stdin, prompt, ttyAttached, role_class, full_completion,
                   completions, executed, prompts, option, typed, outcome>>

\* app.py:175, the input ends: the loop is left.
ReadEnd ==
    /\ pc = "reading"
    /\ stdinRest = <<>>
    /\ pc' = "compose"
    /\ UNCHANGED <<roleVars, sideVars>>
    /\ UNCHANGED <<args, stdinRest, stdin, prompt, ttyAttached, role_class,
                   full_completion, completions, executed, prompts, option, typed, outcome>>

\* The f-string of app.py:179 without its "if prompt else stdin".
ComposePrompt_alwaysJoined(stdinBlock, supplied) ==
    stdinBlock \o <<NL, NL>> \o supplied

\* app.py:179
ComposePrompt(stdinBlock, supplied) ==
    IF supplied # <<>> THEN stdinBlock \o <<NL, NL>> \o supplied ELSE stdinBlock

\* app.py:179-188: compose the prompt, then try to switch sys.stdin to the
\* terminal device (ok: the open succeeded).
Compose ==
    /\ pc = "compose"
    /\ prompt' = ComposePrompt(stdin, prompt)
    /\ \E ok \in BOOLEAN : ttyAttached' = ok
    /\ pc' = "validate"
    /\ UNCHANGED <<roleVars, sideVars>>
    /\ UNCHANGED <<args, stdinRest, stdin, role_class, full_completion,
                   completions, executed, prompts, option, typed, outcome>>

\* app.py:190-199: the three usage checks.
Validate ==
    /\ pc = "validate"
    /\ IF IntentCount(args) > 1
       THEN pc' = "exit" /\ outcome' = "ConflictingIntent"
       ELSE IF args.chat /\ args.repl
       THEN pc' = "exit" /\ outcome' = "ChatAndRepl"
       ELSE IF args.editor /\ ~args.isatty
       THEN pc' = "exit" /\ outcome' = "EditorWithStdin"
       ELSE /\ pc' = IF args.editor THEN "editor" ELSE "resolve"
            /\ outcome' = outcome
    /\ UNCHANGED <<roleVars, sideVars>>
    /\ UNCHANGED <<args, stdinRest, stdin, prompt, ttyAttached, role_class,
                   full_completion, completions, executed, prompts, option, typed>>

\* app.py:201-202 with utils.get_edited_prompt
EditPrompt(text) ==
    /\ pc = "editor"
    /\ IF text = <<>>
       THEN pc' = "exit" /\ outcome' = "BadParameter" /\ prompt' = prompt
       ELSE pc' = "resolve" /\ outcome' = outcome /\ prompt' = text
    /\ UNCHANGED <<roleVars, sideVars>>
    /\ UNCHANGED <<args, stdinRest, stdin, ttyAttached, role_class,
                   full_completion, completions, executed, prompts, option, typed>>

\* app.py:204-208
ResolveRole ==
    /\ pc = "resolve"
    /\ LET r == IF args.role = ""
                THEN CheckGet(files, args.shell, args.describe_shell, args.code)
                ELSE Get(files, args.role)
       IN  IF r.kind = "RoleNotFound"
           THEN /\ pc' = "exit" /\ outcome' = "RoleNotFound"
                /\ role_class' = role_class
           ELSE /\ pc' = IF args.repl THEN "repl" ELSE "handle"
                /\ outcome' = outcome
                /\ role_class' = r
    /\ UNCHANGED <<roleVars, sideVars>>
    /\ UNCHANGED <<args, stdinRest, stdin, prompt, ttyAttached,
                   full_completion, completions, executed, prompts, option, typed>>

\* app.py:212-221: one request of the REPL session.
ReplTurn ==
    /\ pc = "repl"
    /\ Len(completions) < MaxRepl
    /\ completions' = Append(completions,
                             Request("repl", role_class.name, prompt, args.params))
    /\ UNCHANGED <<roleVars, sideVars>>
    /\ UNCHANGED <<pc, args, stdinRest, stdin, prompt, ttyAttached, role_class,
                   full_completion, executed, prompts, option, typed, outcome>>

\* The REPL session ends only with the process (exit() or Ctrl+C).
ReplExit ==
    /\ pc = "repl"
    /\ pc' = "exit"
    /\ outcome' = "ReplExit"
    /\ UNCHANGED <<roleVars, sideVars>>
    /\ UNCHANGED <<args, stdinRest, stdin, prompt, ttyAttached, role_class,
                   full_completion, completions, executed, prompts, option, typed>>

\* main with the loop condition of line 242 reading "while shell:".
Handle_shellOnly(text) ==
    /\ pc = "handle"
    /\ completions' = Append(completions,
                             Request(IF args.chat THEN "chat" ELSE "default",
                                     role_class.name, prompt, args.params))
    /\ full_completion' = text
    /\ IF args.shell
       THEN pc' = "AWAITING_CHOICE" /\ outcome' = outcome
       ELSE pc' = "exit" /\ outcome' = "done"
    /\ UNCHANGED <<roleVars, sideVars>>
    /\ UNCHANGED <<args, stdinRest, stdin, prompt, ttyAttached, role_class,
                   executed, prompts, option, typed>>

\* app.py:223-242: the handler's request, then the first test of the loop.
Handle(text) ==
    /\ pc = "handle"
    /\ completions' = Append(completions,
                             Request(IF args.chat THEN "chat" ELSE "default",
                                     role_class.name, prompt, args.params))
    /\ full_completion' = text
    /\ IF args.shell /\ args.interaction
       THEN pc' = "AWAITING_CHOICE" /\ outcome' = outcome
       ELSE pc' = "exit" /\ outcome' = "done"
    /\ UNCHANGED <<roleVars, sideVars>>
    /\ UNCHANGED <<args, stdinRest, stdin, prompt, ttyAttached, role_class,
                   executed, prompts, option, typed>>

\* The loop body with the break after run_command missing.
LoopExecute_continue ==
    /\ executed' = Append(executed,
          [command |-> full_completion,
           full_command |-> FullCommand(host, full_completion)])
    /\ completions' = completions
    /\ pc' = "AWAITING_CHOICE" /\ outcome' = outcome

\* app.py:250-252, 263: run_command(full_completion), then break.
LoopExecute ==
    /\ executed' = Append(executed,
          [command |-> full_completion,
           full_command |-> FullCommand(host, full_completion)])
    /\ completions' = completions
    /\ pc' = "exit" /\ outcome' = "done"

\* The describe request sent under the persona of the run, not the descriptor.
LoopDescribe_ownPersona ==
    /\ executed' = executed
    /\ completions' = Append(completions,
          Request("default", role_class.name, full_completion, args.params))
    /\ pc' = "AWAITING_CHOICE" /\ outcome' = outcome

\* The loop body with "break" in place of "continue" after the describe request.
LoopDescribe_break ==
    /\ executed' = executed
    /\ completions' = Append(completions,
          Request("default", DESCRIBE_SHELL, full_completion, args.params))
    /\ pc' = "exit" /\ outcome' = "done"

\* app.py:253-262: the describe request under the descriptor role, continue.
LoopDescribe ==
    LET r == Get(files, DESCRIBE_SHELL)
    IN  /\ executed' = executed
        /\ IF r.kind = "RoleNotFound"
           THEN /\ completions' = completions
                /\ pc' = "exit" /\ outcome' = "RoleNotFound"
           ELSE /\ completions' = Append(completions,
                      Request("default", r.name, full_completion, args.params))
                /\ pc' = "AWAITING_CHOICE" /\ outcome' = outcome

\* app.py:263: break on any other option.
LoopAbort ==
    /\ executed' = executed
    /\ completions' = completions
    /\ pc' = "exit" /\ outcome' = "done"

\* app.py:243-263: one turn of the loop on the answer raw.  typer.prompt
\* returns only a valid choice.
AnswerPrompt(raw) ==
    /\ pc = "AWAITING_CHOICE"
    /\ LET opt == PromptOption(raw, args.default_execute)
       IN  /\ opt # "invalid"
           /\ opt = "d" => Len(completions) < 1 + MaxDescribe
           /\ option' = opt /\ typed' = raw
           /\ prompts' = prompts + 1
           /\ IF opt \in {"e", "y"} THEN LoopExecute
              ELSE IF opt = "d" THEN LoopDescribe
              ELSE LoopAbort
    /\ UNCHANGED <<roleVars, sideVars>>
    /\ UNCHANGED <<args, stdinRest, stdin, prompt, ttyAttached, role_class,
                   full_completion>>

NextMain ==
    \/ MainImport
    \/ ReadLine
    \/ ReadSentinel
    \/ ReadEnd
    \/ Compose
    \/ Validate
    \/ \E text \in EditedTexts : EditPrompt(text)
    \/ ResolveRole
    \/ ReplTurn
    \/ ReplExit
    \/ \E text \in Responses : Handle(text)
    \/ \E raw \in RawAnswers : AnswerPrompt(raw)

\* ------------------------------------------------------- inputs of main
L1 == <<"line1", NL>>
L2 == <<"line2", NL>>
LSentinel == <<SENTINEL, NL>>
LInner == <<"x", SENTINEL, "y", NL>>
LRemainder == <<"REMAINDER", NL>>
LOnly == <<"only this", NL>>

\* The piped inputs of the specification's examples.
ExampleStreams == { <<L1, L2, LSentinel, LRemainder>>, <<LOnly>> }

\* Every piped input of at most MaxLines lines over three kinds of line.
EnumStreams ==
    UNION {[1..n -> {L1, LSentinel, LInner}] : n \in 0..MaxLines}

Prompts == {<<>>, <<"Q">>}

\* The store main starts on: nothing persisted yet.
MainStore == [n \in Names |-> NoFile]

InitMainStore ==
    /\ files = MainStore
    /\ storageExists = FALSE
    /\ clock = 1
    /\ host \in Hosts
    /\ rpc = "idle"
    /\ result = NoResult
    /\ listed = <<>>
    /\ created = <<>>

InitMainLocals ==
    /\ pc = "start"
    /\ stdin = <<>>
    /\ prompt = args.prompt
    /\ ttyAttached = FALSE
    /\ role_class = NoRole
    /\ full_completion = <<>>
    /\ completions = <<>>
    /\ executed = <<>>
    /\ prompts = 0
    /\ option = ""
    /\ typed = NoAnswer
    /\ outcome = "running"

\* Every command line over the flags main reads, with the standard input it
\* runs on (isatty, and the lines piped in when it is no terminal) and the
\* configured DEFAULT_EXECUTE_SHELL_CMD.
ArgSets(streams) ==
    {a \in [prompt : Prompts, shell : BOOLEAN, describe_shell : BOOLEAN,
            code : BOOLEAN, interaction : BOOLEAN, role : {"", CODE, "B"},
            chat : BOOLEAN, repl : BOOLEAN, editor : BOOLEAN, isatty : BOOLEAN,
            piped : streams \cup {<<>>}, params : Params,
            default_execute : {"true", "false", "True"}] :
        a.isatty => a.piped = <<>>}

InitMain ==
    /\ InitMainStore
    /\ args \in ArgSets(ExampleStreams)
    /\ stdinRest = args.piped
    /\ InitMainLocals
    /\ SideIdle

\* ------------------------------------------- the stdin prompt extractor alone
\* main up to the end of the extraction (app.py:163-188), on every enumerated
\* piped input; the flags read later are off.
NextExtract ==
    \/ MainImport
    \/ ReadLine
    \/ ReadSentinel
    \/ ReadEnd
    \/ Compose

InitExtract ==
    /\ InitMainStore
    /\ \E p \in Prompts, tty \in BOOLEAN, s \in EnumStreams \cup ExampleStreams :
          /\ tty => s = <<>>
          /\ args = [NoArgs EXCEPT !.prompt = p, !.isatty = tty, !.piped = s]
    /\ stdinRest = args.piped
    /\ InitMainLocals
    /\ SideIdle

SpecExtract == InitExtract /\ [][NextExtract]_vars

SpecMain == InitMain /\ [][NextMain]_vars

\* --------------------------------------------------- get_role_name alone
\* The atoms of the transcripts enumerated.
Atoms == {YOU_ARE, SP, DEFAULT, "x", NL}

RECURSIVE TextsUpTo(_)
TextsUpTo(n) ==
    IF n = 0 THEN {<<>>}
    ELSE LET shorter == TextsUpTo(n - 1)
         IN  shorter \cup {Append(t, a) : t \in shorter, a \in Atoms}

Transcripts == TextsUpTo(MaxAtoms)

\* One call of SystemRole.get_role_name on the transcript.
DetectActiveRole ==
    /\ role_name = NotCalled
    /\ role_name' = GetRoleName(initial_message)
    /\ UNCHANGED <<roleVars, mainVars, initial_message, defaults>>

InitDetect ==
    /\ InitMainStore
    /\ MainIdle
    /\ initial_message \in Transcripts
    /\ role_name = NotCalled
    /\ defaults = NoDefaults

NextDetect == DetectActiveRole

SpecDetect == InitDetect /\ [][NextDetect]_vars

\* ------------------------------------ create_defaults in concurrent processes
\* Path.write_text opens the file with mode "w": the file exists from here on,
\* empty until the text is written.
OpenForWrite(fs, name, t) ==
    [fs EXCEPT ![name] = [name |-> "", role |-> <<>>, mtime |-> t]]

\* write_text with the file opened in append mode.
WriteText_append(fs, r, t) ==
    [fs EXCEPT ![r.name] = [name |-> r.name,
                            role |-> fs[r.name].role \o ComposeBody(r),
                            mtime |-> t]]

\* Path.write_text, the text written from the start of the opened file:
\* json.dumps of the name and the composed body.
WriteText(fs, r, t) ==
    [fs EXCEPT ![r.name] = [name |-> r.name, role |-> ComposeBody(r), mtime |-> t]]

\* The built-in process p is at.
RoleAt(p) == DefaultRoleObjects(host)[defaults[p].i]

\* The position after the turn of the loop a process at d has finished.
AfterTurn(d) ==
    IF d.i = Len(DefaultRoleObjects(host))
    THEN [d EXCEPT !.at = "done"] ELSE [d EXCEPT !.i = @ + 1, !.at = "check"]

\* role.py:70-77: the parent and storage mkdir, the four objects.
DefaultsStart(p) ==
    /\ defaults[p].at = "start"
    /\ storageExists' = TRUE
    /\ defaults' = [defaults EXCEPT ![p] = [i |-> 1, at |-> "check", writes |-> 0]]
    /\ UNCHANGED <<files, clock, host, rpc, result, listed, created>>
    /\ UNCHANGED <<mainVars, initial_message, role_name>>

\* role.py:78: if not default_role._exists.
DefaultsCheck(p) ==
    /\ defaults[p].at = "check"
    /\ defaults' = [defaults EXCEPT ![p] =
                      IF Exists(files, RoleAt(p).name) THEN AfterTurn(@)
                      ELSE [@ EXCEPT !.at = "save"]]
    /\ UNCHANGED <<roleVars, mainVars, initial_message, role_name>>

\* role.py:152: if self._exists, at the start of _save.
DefaultsSave(p) ==
    /\ defaults[p].at = "save"
    /\ defaults' = [defaults EXCEPT ![p].at =
                      IF Exists(files, RoleAt(p).name) THEN "confirm" ELSE "open"]
    /\ UNCHANGED <<roleVars, mainVars, initial_message, role_name>>

\* role.py:153-156: the reply to typer.confirm(abort=True); "no" raises Abort
\* and the import fails.
DefaultsConfirm(p, answer) ==
    /\ defaults[p].at = "confirm"
    /\ defaults' = [defaults EXCEPT ![p].at = IF answer THEN "open" ELSE "aborted"]
    /\ UNCHANGED <<roleVars, mainVars, initial_message, role_name>>

\* role.py:158-159: the body composed, the file opened for writing; the clock
\* may have advanced by dt since the last write.
DefaultsOpen(p, dt) ==
    /\ defaults[p].at = "open"
    /\ clock' = clock + dt
    /\ files' = OpenForWrite(files, RoleAt(p).name, clock')
    /\ defaults' = [defaults EXCEPT ![p].at = "write"]
    /\ UNCHANGED <<storageExists, host, rpc, result, listed, created>>
    /\ UNCHANGED <<mainVars, initial_message, role_name>>

\* role.py:159: the text written and the file closed; on to the next built-in.
DefaultsWrite(p) ==
    /\ defaults[p].at = "write"
    /\ files' = WriteText(files, RoleAt(p), clock)
    /\ defaults' = [defaults EXCEPT ![p] =
                      AfterTurn([@ EXCEPT !.writes = @ + 1])]
    /\ UNCHANGED <<storageExists, clock, host, rpc, result, listed, created>>
    /\ UNCHANGED <<mainVars, initial_message, role_name>>

NextDefaults ==
    \/ \E p \in Procs : DefaultsStart(p)
    \/ \E p \in Procs : DefaultsCheck(p)
    \/ \E p \in Procs : DefaultsSave(p)
    \/ \E p \in Procs, answer \in BOOLEAN : DefaultsConfirm(p, answer)
    \/ \E p \in Procs, dt \in {0, 1} : DefaultsOpen(p, dt)
    \/ \E p \in Procs : DefaultsWrite(p)

\* Two processes about to run create_defaults on the empty store.
InitDefaults ==
    /\ InitMainStore
    /\ MainIdle
    /\ initial_message = <<>>
    /\ role_name = NotCalled
    /\ defaults = [p \in Procs |-> [i |-> 0, at |-> "start", writes |-> 0]]

SpecDefaults == InitDefaults /\ [][NextDefaults]_vars

\* ------------------------------------------------ the role registry's claims
Last(q) == q[Len(q)]

\* A step that is the import of sgpt.role (create_defaults)
ImportStep == rpc = "idle" /\ rpc' = "ready"

\* C2: create_defaults writes a built-in only when it has no record: every
\* record present before (a customized built-in included) is the same after,
\* and a second create_defaults right after the first changes nothing.
C2_CreateDefaultsKeepsRecords ==
    [][ImportStep =>
          /\ \A n \in Names : Exists(files, n) => files'[n] = files[n]
          /\ \A n \in BuiltinNames : Exists(files', n)
          /\ \A adv \in ClockAdvances :
                CreateDefaults(files', host, clock' + 1, adv).files = files']_vars

C2_Witness ==
    /\ rpc = "ready"
    /\ files[DEFAULT] = CustomFile(DEFAULT)
    /\ Exists(files, SHELL) /\ files[SHELL] # CustomFile(SHELL)

\* The store was empty when the only process so far started.
FreshDefaults ==
    /\ rpc = "ready" /\ created = <<>>
    /\ \A n \in BuiltinNames : Exists(files, n) /\ files[n].mtime >= 1

\* C3: after create_defaults on an empty store, get(name) of each built-in
\* yields a role whose body contains the built-in's template with {shell} and
\* {os} replaced by the host's shell name and OS string.
C3_DefaultsCarryTemplate ==
    FreshDefaults =>
        \A i \in 1..4 :
            LET r == DefaultRoleObjects(host)[i]
                g == Get(files, r.name)
            IN  /\ g.kind = "role"
                /\ g.name = r.name
                /\ Contains(g.role, r.role)

\* C4: after create(name, text) has written, get(name) yields a role of that
\* name whose body contains text.
C4_CreatePersistsText ==
    (rpc = "idle" /\ result.kind = "created") =>
        LET g == Get(files, result.name)
        IN  /\ g.kind = "role"
            /\ g.name = result.name
            /\ Contains(g.role, result.role)

\* A step that is a --create-role callback
CreateStep == rpc = "ready" /\ result'.kind \in {"created", "aborted"}

\* C5: create asks for confirmation exactly when the name has a record; when
\* the user declines, the callback aborts and the store is as before; in every
\* other case the record is written.
C5_DeclinedOverwriteKeepsStore ==
    [][CreateStep =>
          LET e == Last(created')
          IN  /\ (e.reply # "none") = Exists(files, e.name)
              /\ e.reply = "no" =>
                    /\ result'.kind = "aborted"
                    /\ files' = files
              /\ e.reply # "no" =>
                    /\ result'.kind = "created"
                    /\ Exists(files', e.name)
                    /\ \A n \in Names \ {e.name} : files'[n] = files[n]]_vars

C5_Witness ==
    /\ rpc = "idle" /\ result.kind = "aborted"
    /\ Len(created) = 2
    /\ created[1] = [name |-> "A", written |-> TRUE, reply |-> "none"]
    /\ created[2] = [name |-> "A", written |-> FALSE, reply |-> "no"]
    /\ Exists(files, "A") /\ files["A"].mtime < clock

\* A step that is a lookup by name (--show-role)
LookupStep == rpc = "ready" /\ result'.kind \in {"role", "RoleNotFound"}

\* C6: get(name) of a name with no record fails with RoleNotFound and leaves
\* the store as it was: no record and no directory is created.
C6_MissingRoleNotFound ==
    [][(LookupStep /\ ~Exists(files, result'.name)) =>
          /\ result'.kind = "RoleNotFound"
          /\ files' = files
          /\ storageExists' = storageExists]_vars

C6_Witness ==
    /\ rpc = "idle"
    /\ result = [NotFound EXCEPT !.name = "B"]
    /\ Exists(files, "A") /\ ~Exists(files, "B")

\* The role names of the echoed paths
ListedNames == [i \in 1..Len(listed) |-> listed[i][2]]

\* C7: list echoes every persisted role once, in ascending order of
\* modification time, and a declined overwrite does not move a role: after
\* create A, create B and a declined create A, the user roles are listed as
\* A, B.
C7_ListOldestFirst ==
    (rpc = "idle" /\ result.kind = "listed") =>
        /\ \A i \in 1..Len(listed) : listed[i] = FilePath(ListedNames[i])
        /\ {ListedNames[i] : i \in 1..Len(listed)} = Present(files)
        /\ Len(listed) = Cardinality(Present(files))
        /\ \A i, j \in 1..Len(listed) :
              i < j => files[ListedNames[i]].mtime <= files[ListedNames[j]].mtime
        /\ (/\ Len(created) = 3
            /\ created[1] = [name |-> "A", written |-> TRUE, reply |-> "none"]
            /\ created[2] = [name |-> "B", written |-> TRUE, reply |-> "none"]
            /\ created[3] = [name |-> "A", written |-> FALSE, reply |-> "no"])
           => SelectSeq(ListedNames, LAMBDA n : n \in UserNames) = <<"A", "B">>

C7_Witness ==
    /\ rpc = "idle" /\ result.kind = "listed"
    /\ Len(created) = 3
    /\ created[1] = [name |-> "A", written |-> TRUE, reply |-> "none"]
    /\ created[2] = [name |-> "B", written |-> TRUE, reply |-> "none"]
    /\ created[3] = [name |-> "A", written |-> FALSE, reply |-> "no"]
    /\ Len(listed) = 6

\* ------------------------------------------- the prompt extractor's claims
\* The lines of the piped input q before its first line that holds the
\* sentinel (all of q when no line does).
LinesBeforeSentinel(q) ==
    LET hits == {i \in 1..Len(q) : SENTINEL \in {q[i][j] : j \in 1..Len(q[i])}}
    IN  IF hits = {} THEN Len(q)
        ELSE (CHOOSE i \in hits : \A k \in hits : i <= k) - 1

\* C8: on piped input the extractor consumes the lines up to and including the
\* first line that contains the sentinel: the block read is the concatenation
\* of the lines before it, the sentinel line is dropped and every line after it
\* is left unread.  The four-line example with prompt Q gives
\* line1\nline2\n\n\nQ and leaves REMAINDER\n; a sentinel on the first line
\* gives an empty block.
C8_SentinelSplitsInput ==
    (~args.isatty /\ pc \in {"compose", "validate"}) =>
        LET k == LinesBeforeSentinel(args.piped)
        IN  /\ stdin = Concat(SubSeq(args.piped, 1, k))
            /\ stdinRest = SubSeq(args.piped, k + 2, Len(args.piped))
            /\ ~Contains(stdin, <<SENTINEL>>)
            /\ (pc = "validate" /\ args.piped = <<L1, L2, LSentinel, LRemainder>>
                /\ args.prompt = <<"Q">>)
               => /\ prompt = <<"line1", NL, "line2", NL, NL, NL, "Q">>
                  /\ stdinRest = <<LRemainder>>
            /\ (args.piped # <<>> /\ Head(args.piped) = LSentinel)
               => stdin = <<>> /\ stdinRest = Tail(args.piped)

C8_Witness ==
    /\ pc = "validate"
    /\ args.piped = <<L1, L2, LSentinel, LRemainder>>
    /\ prompt = <<"line1", NL, "line2", NL, NL, NL, "Q">>
    /\ stdinRest = <<LRemainder>>

\* C9: the prompt after the extraction is block + "\n\n" + supplied prompt
\* when a prompt was supplied and the block alone otherwise; "only this\n"
\* piped with no prompt gives exactly that, empty piped input with no prompt
\* gives the empty prompt and no error; on a terminal the supplied prompt is
\* unchanged and nothing is read.
C9_EffectivePrompt ==
    pc = "validate" =>
        /\ outcome = "running"
        /\ args.isatty => prompt = args.prompt /\ stdin = <<>>
        /\ (~args.isatty /\ args.prompt # <<>>)
              => prompt = stdin \o <<NL, NL>> \o args.prompt
        /\ (~args.isatty /\ args.prompt = <<>>) => prompt = stdin
        /\ (~args.isatty /\ args.prompt = <<>> /\ args.piped = <<LOnly>>)
              => prompt = <<"only this", NL>>
        /\ (~args.isatty /\ args.prompt = <<>> /\ args.piped = <<>>)
              => prompt = <<>>

C9_Witness ==
    /\ pc = "validate" /\ ~args.isatty
    /\ args.piped = <<LOnly>> /\ args.prompt = <<>>
    /\ prompt = <<"only this", NL>>

\* --------------------------------------------------------- claims about main
\* The intents of {shell, describe-shell, code} a command line requests
Intents(a) == {f \in {"shell", "describe_shell", "code"} : a[f]}

\* C10: when more than one of shell, describe-shell and code is requested the
\* run ends in the usage error ConflictingIntent before any completion: no
\* request is ever sent, nothing is executed and the loop is never entered.
C10_ConflictingIntentFirst ==
    Cardinality(Intents(args)) > 1 =>
        /\ completions = <<>>
        /\ executed = <<>>
        /\ prompts = 0
        /\ pc \in {"start", "reading", "compose", "validate", "exit"}
        /\ pc = "exit" => outcome = "ConflictingIntent"

C10_Witness ==
    /\ pc = "exit" /\ outcome = "ConflictingIntent"
    /\ args.shell /\ args.code /\ ~args.describe_shell
    /\ args.interaction /\ args.role = CODE
    /\ prompt = <<"only this", NL, NL, NL, "Q">>

\* A step that answers the E/D/A prompt
AnswerStep == pc = "AWAITING_CHOICE" /\ prompts' = prompts + 1

\* C1: in the loop holding command c, an answer d sends one describe request
\* and returns to AWAITING_CHOICE with c still held; an answer e hands c to
\* the executor, once, and ends the loop; an answer a ends the loop with no
\* execution; the executor runs at most once in a run.
C1_ShellActionLoop ==
    [][/\ Len(executed') <= 1
       /\ pc = "AWAITING_CHOICE" => full_completion' = full_completion
       /\ AnswerStep =>
            /\ option' = "d" =>
                  /\ Len(completions') = Len(completions) + 1
                  /\ Last(completions').prompt = full_completion
                  /\ pc' = "AWAITING_CHOICE"
                  /\ executed' = executed
            /\ option' = "e" =>
                  /\ Len(executed') = 1
                  /\ executed'[1].command = full_completion
                  /\ completions' = completions
                  /\ pc' = "exit"
            /\ option' = "a" =>
                  /\ executed' = <<>>
                  /\ completions' = completions
                  /\ pc' = "exit"]_vars

C1_Witness ==
    /\ pc = "exit" /\ option = "e" /\ prompts = 3
    /\ Len(completions) = 3
    /\ full_completion = <<"ls", " ", "-la">>
    /\ Len(executed) = 1 /\ executed[1].command = <<"ls", " ", "-la">>


\* ------------------------------------------------- declined confirmations
\* A step of create or delete in which the user answered "no" to the
\* confirmation
DeclineStep ==
    /\ rpc = "ready" /\ rpc' = "idle"
    /\ \/ (result'.kind \in {"created", "aborted"} /\ created' # created
           /\ Last(created').reply = "no")
       \/ (result'.kind \in {"deleted", "delete_aborted"}
           /\ Exists(files, result'.name) /\ Exists(files', result'.name))

\* C11: when the user declines the confirmation of an overwrite (create) or
\* of a delete, the process exits with status zero.
C11_DeclineExitsZero ==
    [][DeclineStep => ExitStatus(result'.kind) = 0]_vars


\* ------------------------------------------------------ persona detection
\* The records a step writes
Written ==
    {n \in Names : files'[n] # files[n] /\ files'[n] # NoFile}

\* C12: every record written by create_defaults or create has a body that
\* same_role of that role recognises and whose first line get_role_name maps
\* to the role's name.
C12_WrittenBodyCarriesPreamble ==
    [][\A n \in Written :
          /\ SameRole(n, files'[n].role)
          /\ GetRoleName(files'[n].role) = ReturnsName(<<n>>)]_vars


\* C13: get_role_name returns the extracted name or None, None whenever the
\* first line does not hold "You are " (the empty transcript and "You are"
\* without a blank included), and never raises.
C13_DetectNeverFails ==
    role_name # NotCalled =>
        /\ role_name.kind \in {"None", "name"}
        /\ (\/ initial_message = <<>>
            \/ ~Contains(FirstLine(initial_message), <<YOU_ARE, SP>>))
              => role_name = ReturnsNone


\* ------------------------------------------------- the shell action loop
\* C14: the loop is entered only when the shell intent is set and interaction
\* is enabled; in every other run the E/D/A prompt is never shown and
\* run_command is never called.
C14_LoopOnlyOnShellInteraction ==
    ~(args.shell /\ args.interaction) =>
        /\ pc # "AWAITING_CHOICE"
        /\ prompts = 0
        /\ executed = <<>>

C14_Witness ==
    /\ pc = "exit" /\ outcome = "done"
    /\ args.shell /\ ~args.interaction
    /\ Len(completions) = 1 /\ full_completion # <<>>
    /\ prompts = 0 /\ executed = <<>>


\* C15: in every run that reaches the loop, an explicit --role given with
\* --shell included, the completion held as the command was requested under
\* the shell command generator persona.
C15_LoopUnderShellPersona ==
    pc = "AWAITING_CHOICE" => completions[1].persona = SHELL

\* C16: every describe request of the loop goes to the descriptor persona with
\* the held command as its prompt and the model, temperature, top_p and caching
\* of the first request; the held command never changes inside the loop, and
\* it is the text handed to run_command.
C16_DescribeRequest ==
    [][/\ pc = "AWAITING_CHOICE" => full_completion' = full_completion
       /\ (AnswerStep /\ option' = "d") =>
            /\ completions' = Append(completions,
                  [handler |-> "default", persona |-> DESCRIBE_SHELL,
                   prompt |-> full_completion, params |-> completions[1].params])
            /\ completions'[1] = completions[1]
       /\ (AnswerStep /\ option' \in {"e", "y"}) =>
            Last(executed').command = full_completion']_vars

C16_Witness ==
    /\ pc = "exit" /\ option = "y"
    /\ Len(completions) = 3
    /\ completions[1].persona = SHELL /\ completions[1].params.model = "gpt-3.5-turbo"
    /\ completions[3].persona = DESCRIBE_SHELL
    /\ completions[3].prompt = <<"pwd">>
    /\ completions[3].params.model = "gpt-3.5-turbo"
    /\ executed # <<>> /\ executed[1].command = <<"pwd">>

\* What an execute, a describe and an abort step of the loop do
ExecuteEffect ==
    /\ Len(executed') = Len(executed) + 1
    /\ Last(executed').command = full_completion
    /\ completions' = completions
    /\ pc' = "exit"
DescribeEffect ==
    /\ Len(completions') = Len(completions) + 1
    /\ executed' = executed
    /\ pc' = "AWAITING_CHOICE"
AbortEffect ==
    /\ executed' = <<>>
    /\ completions' = completions
    /\ pc' = "exit"

\* C17: the prompt accepts e, d, a, y in either case and nothing else; y, Y and
\* E act as e; the empty answer executes when DEFAULT_EXECUTE_SHELL_CMD is
\* "true" and aborts, with nothing executed, for every other value.
C17_AcceptedAnswers ==
    [][/\ pc = "AWAITING_CHOICE" =>
            /\ \A raw \in {"e", "E", "a", "A", "y", "Y", ""} :
                  ENABLED AnswerPrompt(raw)
            /\ Len(completions) < 1 + MaxDescribe =>
                  ENABLED AnswerPrompt("d") /\ ENABLED AnswerPrompt("D")
            /\ ~ENABLED AnswerPrompt("x")
       /\ AnswerStep =>
            /\ typed' \in {"e", "E", "y", "Y"} => ExecuteEffect
            /\ typed' \in {"d", "D"} => DescribeEffect
            /\ typed' \in {"a", "A"} => AbortEffect
            /\ typed' = "" =>
                  IF args.default_execute = "true"
                  THEN ExecuteEffect ELSE AbortEffect]_vars

C17_Witness ==
    /\ pc = "exit" /\ typed = "" /\ option = "a"
    /\ args.default_execute = "True"
    /\ prompts = 2 /\ Len(completions) = 2
    /\ executed = <<>>

\* C18: the loop ends exactly at an answer e, y or a: a describe step never
\* leaves AWAITING_CHOICE, nothing but an answer leaves it, and every answer e,
\* y or a does.
C18_LoopEndsOnTerminalChoice ==
    [][pc = "AWAITING_CHOICE" =>
          /\ AnswerStep
          /\ option' \in {"e", "y", "a", "d"}
          /\ option' = "d" => pc' = "AWAITING_CHOICE" /\ outcome' = "running"
          /\ option' \in {"e", "y", "a"} => pc' = "exit" /\ outcome' = "done"]_vars

\* after MaxDescribe answers d in a row the run is still in the loop
C18_Witness ==
    /\ pc = "AWAITING_CHOICE" /\ option = "d"
    /\ prompts = MaxDescribe
    /\ Len(completions) = 1 + MaxDescribe
    /\ executed = <<>>


\* ------------------------------------------- concurrent create_defaults
\* Every process left create_defaults, returning or aborted.
DefaultsOver == \A p \in Procs : defaults[p].at \in {"done", "aborted"}

\* The store one create_defaults alone leaves on the empty store.
AloneStore == CreateDefaults(MainStore, host, 1, <<0, 0, 0, 0>>).files

\* C19: after two concurrent create_defaults on the empty store, whatever the
\* interleaving of their checks and writes, every built-in record holds the
\* content one invocation alone writes.
C19_ConcurrentDefaultsSameContent ==
    DefaultsOver =>
        \A n \in BuiltinNames :
            /\ Exists(files, n)
            /\ files[n].name = AloneStore[n].name
            /\ files[n].role = AloneStore[n].role

\* both processes returned, having written six records between them: two of
\* the four built-ins were written twice
C19_Witness ==
    /\ \A p \in Procs : defaults[p].at = "done"
    /\ defaults[1].writes = 3 /\ defaults[2].writes = 3
    /\ \A n \in BuiltinNames : files[n].role = AloneStore[n].role

\* C20: create_defaults never reaches the overwrite confirmation of _save and
\* never aborts, under every interleaving of two concurrent invocations.
C20_DefaultsNeverConfirm ==
    \A p \in Procs : defaults[p].at \notin {"confirm", "aborted"}

====
